---- MODULE Spec2Model ----
(***************************************************************************)
(* Model of app.py: a Flask dashboard over the SQLite table "detections". *)
(* The process loads the label encoder, runs init_db() and then serves    *)
(* GET /, GET /api/detections and GET /api/stats.  Rows are inserted by   *)
(* an external collaborator.                                               *)
(***************************************************************************)
EXTENDS Integers, Sequences, FiniteSets, TLC

(* ---------------------------- bounds ---------------------------------- *)
MaxRequests == 2      \* requests handled in one behaviour
MaxInserts  == 1      \* rows the external collaborator inserts
SeedRows    == 100    \* size of the large pre-existing table

(* ------------------------ program constants --------------------------- *)
RecentLimit == 100    \* "... ORDER BY timestamp DESC LIMIT 100"
HTTP_OK     == 200
HTTP_ERROR  == 500

Requests == 1..MaxRequests

(* ------------------------- stored values ------------------------------ *)
\* A value held in the classification column.  The column is declared
\* INTEGER NOT NULL, but SQLite keeps a non-numeric text as TEXT.
IntV(n) == [kind |-> "int", val |-> n]
TextV   == [kind |-> "text", val |-> 0]

ClassValues == {IntV(0), IntV(1), IntV(99), TextV}
Timestamps  == {1, 2}

Row(i, ts, cls) ==
    [id |-> i, timestamp |-> ts, source_ip |-> "10.0.0.1",
     destination_ip |-> "10.0.0.2", classification |-> cls]

\* label_encoder.classes_ as stored in the artifact
ClassLists == {<<>>, <<"BENIGN", "Bot">>, <<"BENIGN", "Unknown">>}

\* tables the process may find at start
ExampleTable ==
    <<Row(1, 1, IntV(0)), Row(2, 2, IntV(1)), Row(3, 2, IntV(0)), Row(4, 1, IntV(99))>>
LargeTable ==
    [i \in 1..SeedRows |-> Row(i, (i % 2) + 1, IntV(i % 2))]
SeedTables == {<<>>, ExampleTable, LargeTable}

VARIABLES
    classes,      \* the artifact's class list (never written by this process)
    LABEL_MAP,    \* dict(enumerate(label_encoder.classes_))
    mainpc,       \* position of the module's top-level code
    haltCause,    \* what stopped the start, "" if nothing did
    restarted,    \* the process has been started more than once
    schema,       \* the columns of the detections table, <<>> while it does not exist
    rows,         \* the table's rows in rowid order
    inserted,     \* rows inserted by the external collaborator so far
    conns,        \* per request: the connection it opened, and who used it
    initConn,     \* the connection init_db opened in the current start
    initLog,      \* what init_db printed in the current start
    pc,           \* per request: position in its handler
    route,        \* per request: the route it was dispatched to
    conn,         \* per request: the handler's local conn (a connection's id), 0 when None
    detections,   \* per request: dashboard's detections_with_types
    stats,        \* per request: the rows fetched by the GROUP BY query
    response,     \* per request: what the handler returned
    obs           \* per request: what happened to it (history)

vars == <<classes, LABEL_MAP, mainpc, haltCause, restarted, schema, rows,
          inserted, conns, initConn, initLog, pc, route, conn, detections,
          stats, response, obs>>

procVars == <<classes, LABEL_MAP, mainpc, haltCause, restarted, initConn, initLog>>
reqVars  == <<pc, route, conn, detections, stats, response, obs>>
dbVars   == <<schema, rows, inserted>>

\* the detections table exists in the database file
tableExists == schema # <<>>

\* lines 37-43: the columns CREATE TABLE gives the table
DetectionsColumns == <<"id", "timestamp", "source_ip", "destination_ip", "classification">>

(* --------------------------- pure helpers ----------------------------- *)
Min(a, b) == IF a < b THEN a ELSE b

RECURSIVE SumOver(_, _)
SumOver(f, keys) ==
    IF keys = {} THEN 0
    ELSE LET k == CHOOSE x \in keys : TRUE IN f[k] + SumOver(f, keys \ {k})

\* sum(d.values()) of a dict
DictSum(d) == SumOver(d, DOMAIN d)

EmptyDict == [k \in {} |-> 0]

\* d[key] = value of a Python dict: a new key is added, an old one overwritten
DictSet(d, key, value) ==
    [k \in (DOMAIN d) \cup {key} |-> IF k = key THEN value ELSE d[k]]

\* the permutations of a finite set, as sequences
Perms(S) ==
    {p \in [1..Cardinality(S) -> S] : \A i, j \in 1..Cardinality(S) : p[i] = p[j] => i = j}

(* ----------------------- label mapping (lines 15-16) ------------------ *)
\* variant: the IDs are counted from 1
MakeLabelMapFromOne(cl) == [i \in 1..Len(cl) |-> cl[i]]

\* dict(enumerate(label_encoder.classes_))
MakeLabelMap(cl) == [i \in 0..(Len(cl) - 1) |-> cl[i + 1]]

\* int(row['classification']): raises ValueError on a non-numeric text
IntConvertible(v) == v.kind = "int"
PyInt(v) == v.val

\* LABEL_MAP.get(key, "Unknown")
LABEL_MAP_get(map, key) == IF key \in DOMAIN map THEN map[key] ELSE "Unknown"

(* ------------------------------ queries ------------------------------- *)
\* ORDER BY timestamp DESC gives no order among equal timestamps: the engine
\* may keep rowid order (sorter) or reverse it (backward index scan).
TieOrders == {"rowid_asc", "rowid_desc"}

Reverse(s) == [i \in 1..Len(s) |-> s[Len(s) + 1 - i]]

\* the rows with timestamp t, in the order the engine gives equal timestamps
SameTimestamp(tbl, t, tie) ==
    LET same == SelectSeq(tbl, LAMBDA r : r.timestamp = t)
    IN IF tie = "rowid_asc" THEN same ELSE Reverse(same)

\* ORDER BY timestamp DESC: the rows of the greatest timestamp, then the rest
RECURSIVE OrderByTimestampDesc(_, _, _)
OrderByTimestampDesc(tbl, ts, tie) ==
    IF ts = {} THEN <<>>
    ELSE LET t == CHOOSE x \in ts : \A y \in ts : y <= x
         IN SameTimestamp(tbl, t, tie) \o OrderByTimestampDesc(tbl, ts \ {t}, tie)

\* variant: the ORDER BY clause is missing
SelectRecentUnordered(tbl, tie) == SubSeq(tbl, 1, Min(RecentLimit, Len(tbl)))

\* SELECT * FROM detections ORDER BY timestamp DESC LIMIT 100
SelectRecent(tbl, tie) ==
    LET sorted == OrderByTimestampDesc(tbl, {tbl[i].timestamp : i \in 1..Len(tbl)}, tie)
    IN SubSeq(sorted, 1, Min(RecentLimit, Len(sorted)))

\* SELECT classification, COUNT(*) as count FROM detections GROUP BY classification
\* one row per distinct stored value; the order of the groups is the engine's
GroupKeys(tbl) == {tbl[i].classification : i \in 1..Len(tbl)}
GroupCount(tbl, key) == Cardinality({i \in 1..Len(tbl) : tbl[i].classification = key})
SelectStats(tbl, order) ==
    [i \in 1..Len(order) |-> [classification |-> order[i], count |-> GroupCount(tbl, order[i])]]

\* [dict(row, classification=LABEL_MAP.get(int(row['classification']), "Unknown")) ...]
WithTypes(map, fetched) ==
    [i \in 1..Len(fetched) |->
        [fetched[i] EXCEPT !.classification = LABEL_MAP_get(map, PyInt(fetched[i].classification))]]
ConvertibleRows(fetched) ==
    \A i \in 1..Len(fetched) : IntConvertible(fetched[i].classification)

\* variant: groups that resolve to one label are added up
RECURSIVE StatsDictSummed(_, _, _)
StatsDictSummed(map, groups, n) ==
    IF n = 0 THEN EmptyDict
    ELSE LET d == StatsDictSummed(map, groups, n - 1)
             label == LABEL_MAP_get(map, PyInt(groups[n].classification))
         IN DictSet(d, label, groups[n].count + (IF label \in DOMAIN d THEN d[label] ELSE 0))

\* {LABEL_MAP.get(int(row['classification']), "Unknown"): row['count'] for row in stats}
RECURSIVE StatsDict(_, _, _)
StatsDict(map, groups, n) ==
    IF n = 0 THEN EmptyDict
    ELSE DictSet(StatsDict(map, groups, n - 1),
                 LABEL_MAP_get(map, PyInt(groups[n].classification)),
                 groups[n].count)

(* ----------------------------- responses ------------------------------ *)
NoResponse ==
    [status |-> 0, kind |-> "none", text |-> <<>>, error |-> "",
     detections |-> <<>>, stats |-> EmptyDict]

\* return "Database connection error", 500
TextConnError ==
    [NoResponse EXCEPT !.status = HTTP_ERROR, !.kind = "text",
                       !.text = <<"Database connection error">>]
\* return f"An error occurred: {str(e)}", 500
TextError(msg) ==
    [NoResponse EXCEPT !.status = HTTP_ERROR, !.kind = "text",
                       !.text = <<"An error occurred: ", msg>>]
\* variant: the status code is left out of the return
JsonErrorNoStatus(msg) ==
    [NoResponse EXCEPT !.status = HTTP_OK, !.kind = "json_object", !.error = msg]

\* return jsonify({"error": msg}), 500
JsonError(msg) ==
    [NoResponse EXCEPT !.status = HTTP_ERROR, !.kind = "json_object", !.error = msg]
\* return render_template('dashboard.html', detections=..., stats=...)
Page(dets, st) ==
    [NoResponse EXCEPT !.status = HTTP_OK, !.kind = "html", !.detections = dets, !.stats = st]
\* return jsonify([...])
JsonArray(dets) ==
    [NoResponse EXCEPT !.status = HTTP_OK, !.kind = "json_array", !.detections = dets]
\* return jsonify({...})
JsonObject(st) ==
    [NoResponse EXCEPT !.status = HTTP_OK, !.kind = "json_object", !.stats = st]

\* the message of the exception a failing step raises, "" when it raises none
NoSuchTable == "no such table: detections"
Locked      == "database is locked"
ValueError  == "invalid literal for int() with base 10"
FormatError == "response could not be rendered"

(* ---------------------------- connections ----------------------------- *)
\* A connection object is named by the request whose connect created it.
NoConn == [state |-> "none", users |-> {}]
\* sqlite3.connect(DB_PATH) succeeding
OpenConn(cs, c) == [cs EXCEPT ![c].state = "open"]
\* conn.execute(...) by request r
UseConn(cs, c, r) == [cs EXCEPT ![c].users = @ \cup {r}]
\* variant: the connection is not closed
CloseConnLeak(cs, c) == cs

\* finally: if conn: conn.close()
CloseConn(cs, c) == IF c = 0 THEN cs ELSE [cs EXCEPT ![c].state = "closed"]

NoObs ==
    [failure |-> "", envFault |-> FALSE, queries |-> 0, tableSeen |-> TRUE,
     rowsSeen |-> FALSE, total |-> 0]

(* ------------------------------- Init --------------------------------- *)
InitProcess(classLists, seeds) ==
    /\ classes \in classLists
    /\ LABEL_MAP = <<>>
    /\ mainpc = "load"
    /\ haltCause = ""
    /\ restarted = FALSE
    /\ schema \in {<<>>, DetectionsColumns}
    /\ rows \in (IF tableExists THEN seeds ELSE {<<>>})
    /\ inserted = 0
    /\ conns = [r \in Requests |-> NoConn]
    /\ initConn = "none"
    /\ initLog = ""
    /\ route = [r \in Requests |-> ""]
    /\ conn = [r \in Requests |-> 0]
    /\ detections = [r \in Requests |-> <<>>]
    /\ stats = [r \in Requests |-> <<>>]
    /\ response = [r \in Requests |-> NoResponse]
    /\ obs = [r \in Requests |-> NoObs]

\* every request of Requests arrives, in any interleaving; one artifact, small tables
Init ==
    /\ InitProcess({<<"BENIGN", "Bot">>}, {<<>>, ExampleTable})
    /\ pc = [r \in Requests |-> "new"]

\* one request arrives; every artifact and every table of the bounded families
InitOne ==
    /\ InitProcess(ClassLists, SeedTables)
    /\ pc = [r \in Requests |-> IF r = 1 THEN "new" ELSE "absent"]

(* ------------------------- process start ------------------------------ *)
\* lines 15-16: joblib.load raises when the artifact cannot be loaded
load_label_encoder ==
    /\ mainpc = "load"
    /\ \E ok \in BOOLEAN :
         IF ok
         THEN /\ LABEL_MAP' = MakeLabelMap(classes)
              /\ mainpc' = "init_db"
              /\ haltCause' = haltCause
         ELSE /\ mainpc' = "halted"
              /\ haltCause' = "label_encoder"
              /\ LABEL_MAP' = LABEL_MAP
    /\ UNCHANGED <<classes, restarted, initConn, initLog, conns>>
    /\ UNCHANGED dbVars
    /\ UNCHANGED reqVars

\* line 34: conn = sqlite3.connect(DB_PATH), before the try block
init_db_connect ==
    /\ mainpc = "init_db"
    /\ \E ok \in BOOLEAN :
         IF ok
         THEN /\ initConn' = "open"
              /\ mainpc' = "init_db_execute"
              /\ haltCause' = haltCause
         ELSE /\ mainpc' = "halted"
              /\ haltCause' = "init_db"
              /\ initConn' = initConn
    /\ initLog' = ""
    /\ UNCHANGED <<classes, LABEL_MAP, restarted, conns>>
    /\ UNCHANGED dbVars
    /\ UNCHANGED reqVars

\* variant: the table is created anew on every call
CreateTableAnew(sch, tbl) == [schema |-> DetectionsColumns, rows |-> <<>>]

\* CREATE TABLE IF NOT EXISTS detections (...): the table after the statement
CreateTableIfNotExists(sch, tbl) ==
    IF sch # <<>> THEN [schema |-> sch, rows |-> tbl]
    ELSE [schema |-> DetectionsColumns, rows |-> <<>>]

\* lines 35-49: try: execute, commit / except sqlite3.Error: print / finally: close
init_db_execute ==
    /\ mainpc = "init_db_execute"
    /\ \E ok \in BOOLEAN :
         IF ok
         THEN /\ schema' = CreateTableIfNotExists(schema, rows).schema
              /\ rows' = CreateTableIfNotExists(schema, rows).rows
              /\ initLog' = "ok"
         ELSE /\ initLog' = "Database initialization error"
              /\ UNCHANGED <<schema, rows>>
    /\ initConn' = "closed"
    /\ mainpc' = "serving"
    /\ UNCHANGED <<classes, LABEL_MAP, haltCause, restarted, inserted, conns>>
    /\ UNCHANGED reqVars

InFlight(r) == pc[r] \notin {"new", "done", "absent"}

\* the process is started again (the module's top-level code runs from line 15)
restart ==
    /\ mainpc \in {"serving", "halted"}
    /\ \A r \in Requests : ~InFlight(r)
    /\ mainpc' = "load"
    /\ haltCause' = ""
    /\ restarted' = TRUE
    /\ LABEL_MAP' = <<>>
    /\ initLog' = ""
    /\ initConn' = "none"
    /\ UNCHANGED <<classes, conns>>
    /\ UNCHANGED dbVars
    /\ UNCHANGED reqVars

(* ---------------------- external collaborator ------------------------- *)
\* a row inserted into detections; id is the AUTOINCREMENT primary key
insert_detection ==
    /\ tableExists
    /\ inserted < MaxInserts
    /\ \E ts \in Timestamps, cls \in ClassValues :
         rows' = Append(rows, Row(Len(rows) + 1, ts, cls))
    /\ inserted' = inserted + 1
    /\ UNCHANGED schema
    /\ UNCHANGED procVars
    /\ UNCHANGED conns
    /\ UNCHANGED reqVars

(* --------------------------- request steps ---------------------------- *)
\* variant: the lookup is LABEL_MAP.setdefault(id, "Unknown"), which stores the default
HandlerFrameSetDefault ==
    /\ LABEL_MAP' = [k \in (DOMAIN LABEL_MAP) \cup {99} |-> LABEL_MAP_get(LABEL_MAP, k)]
    /\ UNCHANGED <<classes, mainpc, haltCause, restarted, initConn, initLog>>
    /\ UNCHANGED dbVars

\* lines 61-128: the handlers only read; they assign neither LABEL_MAP nor any
\* other module-level name, and they execute SELECT statements only
HandlerFrame ==
    /\ UNCHANGED procVars
    /\ UNCHANGED dbVars

\* lines 51-59: a new connection, or None when sqlite3.connect raises sqlite3.Error
get_db_connection(cs, r, ok) ==
    IF ok THEN [conns |-> OpenConn(cs, r), conn |-> r]
          ELSE [conns |-> cs, conn |-> 0]

\* variant: a query that finds no row raises
QueryErrorOnEmpty(exists, envOk) ==
    IF ~exists THEN NoSuchTable
    ELSE IF ~envOk THEN Locked
    ELSE IF rows = <<>> THEN "no rows returned"
    ELSE ""

\* the message of the sqlite3.Error conn.execute raises, "" when it raises none
QueryError(exists, envOk) ==
    IF ~exists THEN NoSuchTable ELSE IF ~envOk THEN Locked ELSE ""

\* the first failure of: the query, the int() conversions, the formatting
FirstError(qerr, convertible, formatOk) ==
    IF qerr # "" THEN qerr
    ELSE IF ~convertible THEN ValueError
    ELSE IF ~formatOk THEN FormatError
    ELSE ""

StatsConvertible(groups) ==
    \A i \in 1..Len(groups) : IntConvertible(groups[i].classification)

ObsConnect(o, c) ==
    [o EXCEPT !.failure = IF c = 0 THEN "connect" ELSE "", !.envFault = (c = 0)]
ObsQuery(o, err, formatOk) ==
    [o EXCEPT !.failure = err,
              !.envFault = (err \in {Locked, FormatError}),
              !.queries = @ + 1,
              !.tableSeen = @ /\ tableExists,
              !.rowsSeen = @ \/ rows # <<>>,
              !.total = Len(rows)]

\* lines 65-67 of dashboard, 98-100 of api_detections, 116-118 of api_stats:
\* conn = get_db_connection(); if not conn: return <error>, 500
Connect(r, path, first, connError) ==
    /\ pc[r] = "new"
    /\ mainpc = "serving"
    /\ \E ok \in BOOLEAN :
         LET g == get_db_connection(conns, r, ok) IN
         /\ conns' = g.conns
         /\ conn' = [conn EXCEPT ![r] = g.conn]
         /\ obs' = [obs EXCEPT ![r] = ObsConnect(@, g.conn)]
         /\ IF g.conn = 0
            THEN /\ response' = [response EXCEPT ![r] = connError]
                 /\ pc' = [pc EXCEPT ![r] = "done"]
            ELSE /\ response' = response
                 /\ pc' = [pc EXCEPT ![r] = first]
    /\ route' = [route EXCEPT ![r] = path]
    /\ UNCHANGED <<detections, stats>>
    /\ HandlerFrame

dashboard_connect(r) == Connect(r, "/", "dashboard_recent", TextConnError)

\* lines 70-78, and 87-92 when they raise
dashboard_recent(r) ==
    /\ pc[r] = "dashboard_recent"
    /\ \E envOk \in BOOLEAN, tie \in TieOrders :
         LET fetched == SelectRecent(rows, tie)
             qerr == QueryError(tableExists, envOk)
             err == FirstError(qerr, qerr # "" \/ ConvertibleRows(fetched), TRUE)
         IN
         /\ obs' = [obs EXCEPT ![r] = ObsQuery(@, err, TRUE)]
         /\ IF err # ""
            THEN /\ response' = [response EXCEPT ![r] = TextError(err)]
                 /\ conns' = CloseConn(UseConn(conns, conn[r], r), conn[r])
                 /\ pc' = [pc EXCEPT ![r] = "done"]
                 /\ detections' = detections
            ELSE /\ detections' = [detections EXCEPT ![r] = WithTypes(LABEL_MAP, fetched)]
                 /\ conns' = UseConn(conns, conn[r], r)
                 /\ pc' = [pc EXCEPT ![r] = "dashboard_stats"]
                 /\ response' = response
    /\ UNCHANGED <<route, conn, stats>>
    /\ HandlerFrame

\* lines 80-92
dashboard_stats(r) ==
    /\ pc[r] = "dashboard_stats"
    /\ \E envOk \in BOOLEAN, order \in Perms(GroupKeys(rows)), renderOk \in BOOLEAN :
         LET fetched == SelectStats(rows, order)
             qerr == QueryError(tableExists, envOk)
             err == FirstError(qerr, qerr # "" \/ StatsConvertible(fetched), renderOk)
         IN
         /\ stats' = [stats EXCEPT ![r] = IF qerr # "" THEN <<>> ELSE fetched]
         /\ obs' = [obs EXCEPT ![r] = ObsQuery(@, err, renderOk)]
         /\ response' = [response EXCEPT ![r] =
                IF err # "" THEN TextError(err)
                ELSE Page(detections[r], StatsDict(LABEL_MAP, fetched, Len(fetched)))]
    /\ conns' = CloseConn(UseConn(conns, conn[r], r), conn[r])
    /\ pc' = [pc EXCEPT ![r] = "done"]
    /\ UNCHANGED <<route, conn, detections>>
    /\ HandlerFrame

api_detections_connect(r) ==
    Connect(r, "/api/detections", "api_detections", JsonError("Database connection error"))

\* lines 102-110
api_detections_query(r) ==
    /\ pc[r] = "api_detections"
    /\ \E envOk \in BOOLEAN, tie \in TieOrders, jsonOk \in BOOLEAN :
         LET fetched == SelectRecent(rows, tie)
             qerr == QueryError(tableExists, envOk)
             err == FirstError(qerr, qerr # "" \/ ConvertibleRows(fetched), jsonOk)
         IN
         /\ obs' = [obs EXCEPT ![r] = ObsQuery(@, err, jsonOk)]
         /\ response' = [response EXCEPT ![r] =
                IF err # "" THEN JsonError(err)
                ELSE JsonArray(WithTypes(LABEL_MAP, fetched))]
    /\ conns' = CloseConn(UseConn(conns, conn[r], r), conn[r])
    /\ pc' = [pc EXCEPT ![r] = "done"]
    /\ UNCHANGED <<route, conn, detections, stats>>
    /\ HandlerFrame

api_stats_connect(r) ==
    Connect(r, "/api/stats", "api_stats", JsonError("Database connection error"))

\* lines 120-128
api_stats_query(r) ==
    /\ pc[r] = "api_stats"
    /\ \E envOk \in BOOLEAN, order \in Perms(GroupKeys(rows)), jsonOk \in BOOLEAN :
         LET fetched == SelectStats(rows, order)
             qerr == QueryError(tableExists, envOk)
             err == FirstError(qerr, qerr # "" \/ StatsConvertible(fetched), jsonOk)
         IN
         /\ stats' = [stats EXCEPT ![r] = IF qerr # "" THEN <<>> ELSE fetched]
         /\ obs' = [obs EXCEPT ![r] = ObsQuery(@, err, jsonOk)]
         /\ response' = [response EXCEPT ![r] =
                IF err # "" THEN JsonError(err)
                ELSE JsonObject(StatsDict(LABEL_MAP, fetched, Len(fetched)))]
    /\ conns' = CloseConn(UseConn(conns, conn[r], r), conn[r])
    /\ pc' = [pc EXCEPT ![r] = "done"]
    /\ UNCHANGED <<route, conn, detections>>
    /\ HandlerFrame

(* ------------------------------ Next ---------------------------------- *)
Next ==
    \/ load_label_encoder
    \/ init_db_connect
    \/ init_db_execute
    \/ restart
    \/ insert_detection
    \/ \E r \in Requests : dashboard_connect(r)
    \/ \E r \in Requests : dashboard_recent(r)
    \/ \E r \in Requests : dashboard_stats(r)
    \/ \E r \in Requests : api_detections_connect(r)
    \/ \E r \in Requests : api_detections_query(r)
    \/ \E r \in Requests : api_stats_connect(r)
    \/ \E r \in Requests : api_stats_query(r)

Spec == Init /\ [][Next]_vars

SpecOne == InitOne /\ [][Next]_vars

(* ======================== properties ================================== *)
Done(r) == pc[r] = "done"
StatsRoutes == {"/", "/api/stats"}

\* the label the artifact configures for an integer ID, "Unknown" if it has none
ConfiguredLabel(id) ==
    IF id \in 0..(Len(classes) - 1) THEN classes[id + 1] ELSE "Unknown"

\* the step in which request r runs the GROUP BY query and answers 200
StatsStep(r) ==
    /\ pc[r] \in {"dashboard_stats", "api_stats"}
    /\ pc'[r] = "done"
    /\ response'[r].status = HTTP_OK

\* C1: the counts of the label-to-count mapping a stats query returns sum to
\* the number of rows the table held when it was queried.
C1_CountsSumToTotal ==
    \A r \in Requests :
        (Done(r) /\ route[r] \in StatsRoutes /\ response[r].status = HTTP_OK)
            => DictSum(response[r].stats) = obs[r].total

\* C10: the stats output has exactly one bucket per resolved label; a bucket's
\* count is the count of the last fetched raw-ID group that resolves to its
\* label (not the sum of those groups); when the raw IDs resolve to distinct
\* labels every bucket holds the number of rows with its raw ID; and IDs
\* [0, 1, 0, 99] under {0: BENIGN, 1: Bot} give BENIGN 2, Bot 1, Unknown 1.
C10_LastGroupWins ==
    [][\A r \in Requests : StatsStep(r) =>
        LET g == stats'[r]
            out == response'[r].stats
            keys == GroupKeys(rows)
            label(k) == ConfiguredLabel(k.val)
        IN /\ Len(g) = Cardinality(keys)
           /\ {g[i].classification : i \in 1..Len(g)} = keys
           /\ \A i \in 1..Len(g) : g[i].count = GroupCount(rows, g[i].classification)
           /\ DOMAIN out = {label(k) : k \in keys}
           /\ \A L \in DOMAIN out :
                \E i \in 1..Len(g) :
                    /\ label(g[i].classification) = L
                    /\ \A j \in (i + 1)..Len(g) : label(g[j].classification) # L
                    /\ out[L] = g[i].count
           /\ (\A k1, k2 \in keys : label(k1) = label(k2) => k1 = k2)
                => \A k \in keys : out[label(k)] = GroupCount(rows, k)
           /\ (rows = ExampleTable /\ classes = <<"BENIGN", "Bot">>)
                => out = ("BENIGN" :> 2 @@ "Bot" :> 1 @@ "Unknown" :> 1)
      ]_vars

\* two raw-ID groups were merged into one bucket and the bucket holds one group's count
C10_Witness ==
    \E r \in Requests :
        /\ Done(r) /\ route[r] = "/api/stats" /\ response[r].status = HTTP_OK
        /\ Len(stats[r]) > Cardinality(DOMAIN response[r].stats)
        /\ DictSum(response[r].stats) < obs[r].total

\* the step in which request r runs the recent query and converts its rows
RecentStep(r) ==
    \/ pc[r] = "dashboard_recent" /\ pc'[r] = "dashboard_stats"
    \/ pc[r] = "api_detections" /\ pc'[r] = "done" /\ response'[r].status = HTTP_OK

\* C2: the list the recent query yields (for GET / and GET /api/detections)
\* has at most 100 records, each a record of the table, timestamps
\* non-increasing, and no record left out is newer than a returned one.
C2_RecentNewestFirst ==
    [][\A r \in Requests : RecentStep(r) =>
        LET out == IF pc[r] = "dashboard_recent" THEN detections'[r]
                   ELSE response'[r].detections
        IN /\ Len(out) <= RecentLimit
           /\ \A i \in 1..Len(out) :
                \E j \in 1..Len(rows) :
                    /\ rows[j].id = out[i].id
                    /\ rows[j].timestamp = out[i].timestamp
                    /\ rows[j].source_ip = out[i].source_ip
                    /\ rows[j].destination_ip = out[i].destination_ip
           /\ \A i \in 1..(Len(out) - 1) : out[i].timestamp >= out[i + 1].timestamp
           /\ \A j \in 1..Len(rows) :
                (\A i \in 1..Len(out) : out[i].id # rows[j].id)
                    => \A i \in 1..Len(out) : rows[j].timestamp <= out[i].timestamp
      ]_vars

\* the table held more than 100 rows and the answer holds 100, newest first
C2_Witness ==
    \E r \in Requests :
        /\ Done(r) /\ route[r] = "/api/detections" /\ response[r].status = HTTP_OK
        /\ obs[r].total > RecentLimit
        /\ Len(response[r].detections) = RecentLimit
        /\ response[r].detections[1].timestamp > response[r].detections[RecentLimit].timestamp

\* integer IDs the resolver is probed with: mapped ones, unmapped ones, a negative one
ProbeIds == {-1, 0, 1, 2, 3, 99}

\* the step in which request r answers GET /api/detections
DetectionsStep(r) == pc[r] = "api_detections" /\ pc'[r] = "done"

\* C3: an integer ID of the label mapping resolves to its configured label and
\* any other integer ID to "Unknown"; resolving an integer ID never fails; and
\* every record GET /api/detections returns equals its stored record except
\* that classification is the resolved label.
C3_ResolveTotal ==
    /\ [](mainpc = "serving" =>
            \A id \in ProbeIds : LABEL_MAP_get(LABEL_MAP, id) = ConfiguredLabel(id))
    /\ [][\A r \in Requests : DetectionsStep(r) =>
            LET out == response'[r].detections
                integers == \A j \in 1..Len(rows) : rows[j].classification.kind = "int"
            IN /\ response'[r].status = HTTP_OK =>
                    \A i \in 1..Len(out) :
                        \E j \in 1..Len(rows) :
                            /\ IntConvertible(rows[j].classification)
                            /\ out[i] = [rows[j] EXCEPT !.classification =
                                            ConfiguredLabel(rows[j].classification.val)]
               /\ integers => obs'[r].failure \in {"", NoSuchTable, Locked, FormatError}
               /\ (integers /\ ~obs'[r].envFault /\ tableExists) => response'[r].status = HTTP_OK
       ]_vars

\* an answer of GET /api/detections with a configured label and an "Unknown"
C3_Witness ==
    \E r \in Requests :
        /\ Done(r) /\ route[r] = "/api/detections" /\ response[r].status = HTTP_OK
        /\ \E i, j \in 1..Len(response[r].detections) :
              /\ response[r].detections[i].classification = "Unknown"
              /\ response[r].detections[j].classification = "Bot"

\* C4: a connection a request opened is closed once the request has returned,
\* whatever the outcome; no connection is open without a request in flight
\* that owns it, and no connection is used by a request other than its opener.
C4_ConnectionsReleased ==
    \A r \in Requests :
        /\ conn[r] \in {0, r}
        /\ conns[r].users \subseteq {r}
        /\ conns[r].state = "open" => (InFlight(r) /\ conn[r] = r)
        /\ Done(r) => conns[r].state = (IF obs[r].failure = "connect" THEN "none" ELSE "closed")
        /\ pc[r] \in {"new", "absent"} => conns[r].state = "none"

\* one request failed on a conversion and has closed its connection while
\* another request is in flight with its own connection open
C4_Witness ==
    \E r1, r2 \in Requests :
        /\ r1 # r2
        /\ Done(r1) /\ obs[r1].failure = ValueError /\ conns[r1].state = "closed"
        /\ InFlight(r2) /\ conns[r2].state = "open" /\ conns[r2].users = {r2}

\* C5: every finished request holds a response of its handler; a request in
\* which connecting or any later step failed is answered 500, in plain text on
\* GET / and as {"error": <message>} on the API routes; and after a failed
\* connect no query was executed.
C5_FailuresAnswered ==
    \A r \in Requests : Done(r) =>
        LET f == obs[r].failure
            resp == response[r]
        IN /\ resp.kind # "none"
           /\ resp.status \in {HTTP_OK, HTTP_ERROR}
           /\ (f = "") <=> (resp.status = HTTP_OK)
           /\ f # "" =>
                /\ resp.detections = <<>> /\ resp.stats = EmptyDict
                /\ IF route[r] = "/"
                   THEN /\ resp.kind = "text"
                        /\ resp.text = (IF f = "connect" THEN <<"Database connection error">>
                                        ELSE <<"An error occurred: ", f>>)
                   ELSE /\ resp.kind = "json_object"
                        /\ resp.error = (IF f = "connect" THEN "Database connection error" ELSE f)
           /\ f = "connect" => (obs[r].queries = 0 /\ conns[r].users = {} /\ conn[r] = 0)

\* a request to an API route whose connect failed
C5_Witness ==
    \E r \in Requests :
        /\ Done(r) /\ route[r] = "/api/detections" /\ obs[r].failure = "connect"
        /\ response[r] = JsonError("Database connection error")

\* C6: a request that found the detections table, found it empty in each of
\* its queries and met no failure of its environment is answered 200 with an
\* empty detection list and an empty stats mapping (GET /), an empty array
\* (GET /api/detections) or an empty object (GET /api/stats).
C6_EmptyStoreIsNoError ==
    \A r \in Requests :
        (Done(r) /\ ~obs[r].envFault /\ obs[r].tableSeen /\ ~obs[r].rowsSeen) =>
            /\ response[r].status = HTTP_OK
            /\ response[r].detections = <<>>
            /\ response[r].stats = EmptyDict
            /\ response[r].error = ""
            /\ response[r].kind = (IF route[r] = "/" THEN "html"
                                   ELSE IF route[r] = "/api/detections" THEN "json_array"
                                   ELSE "json_object")

\* GET / answered from an existing, empty table
C6_Witness ==
    \E r \in Requests :
        /\ Done(r) /\ route[r] = "/" /\ obs[r].queries = 2
        /\ ~obs[r].envFault /\ obs[r].tableSeen /\ ~obs[r].rowsSeen
        /\ response[r] = Page(<<>>, EmptyDict)

\* the step in which init_db runs its try block on the connection it opened
InitDbStep == mainpc = "init_db_execute" /\ mainpc' # mainpc

\* C7: init_db is idempotent: once it has opened the database, a call on a
\* database that already has the detections table (as after an earlier call)
\* raises nothing and leaves the schema and every record as they were, and a
\* call whose statement succeeds leaves the table in existence.
C7_InitDbIdempotent ==
    [][InitDbStep =>
        /\ mainpc' = "serving"
        /\ tableExists => (schema' = schema /\ rows' = rows)
        /\ initLog' = "ok" => (schema' = DetectionsColumns /\ (~tableExists => rows' = <<>>))
      ]_vars

\* init_db has run again, successfully, on a table with records
C7_Witness ==
    /\ restarted /\ mainpc = "serving" /\ initLog = "ok"
    /\ schema = DetectionsColumns /\ rows # <<>>

\* a step of one of the three handlers
HandlerStep == \E r \in Requests : pc'[r] # pc[r]

\* C8: no step of a handler changes the detections table (its schema, its
\* records) or LABEL_MAP, whether the request succeeds or fails.
C8_HandlersReadOnly ==
    [][HandlerStep =>
        /\ rows' = rows
        /\ schema' = schema
        /\ LABEL_MAP' = LABEL_MAP
        /\ classes' = classes
      ]_vars

\* two requests were answered, one of them with a failure, with a row
\* inserted meanwhile
C8_Witness ==
    \E r1, r2 \in Requests :
        /\ r1 # r2 /\ Done(r1) /\ Done(r2)
        /\ response[r1].status = HTTP_OK /\ response[r2].status = HTTP_ERROR
        /\ inserted > 0 /\ obs[r1].total < Len(rows)

\* C9: a failure during init_db (opening the store or creating the table) is
\* logged and swallowed: only a failure to load the label encoder halts the
\* start, and once serving, the connection init_db opened is closed.
C9_InitDbFailuresSwallowed ==
    /\ mainpc = "halted" => haltCause = "label_encoder"
    /\ mainpc = "serving" => initConn = "closed"

====
